---- MODULE Spec2Model ----
(***************************************************************************)
(* Payroll automation: the due-check evaluator of PayrollPeriod            *)
(* (payroll/models.py), the sweep / single-run / manual tasks              *)
(* (payroll/tasks.py), the PayrollProcessor (payroll/services/             *)
(* payroll_processor.py) and the HTTP run endpoint (payroll/views/         *)
(* payroll_period_views.py).                                               *)
(*                                                                         *)
(* Conventions.                                                            *)
(*  - A calendar date is its proleptic Gregorian ordinal, as Python's      *)
(*    date.toordinal() gives it (0001-01-01 is 1, 9999-12-31 is 3652059).  *)
(*  - The task decorators are taken as transparent: calling a task runs    *)
(*    its body with the parameters the body declares, which is how the     *)
(*    repository's tests and its management command call them.             *)
(*  - The period store is read-committed: the writes of one run_payroll    *)
(*    (transaction.atomic) become visible to the others when it returns.   *)
(*  - The lock store (django cache) and the period store answer every      *)
(*    request in Spec; an unreachable store is not part of Spec.           *)
(***************************************************************************)
EXTENDS Integers, Sequences, FiniteSets, TLC

VARIABLES
    today,        \* timezone.now().date(), an ordinal
    periods,      \* the PayrollPeriod table: id -> row (committed state)
    lock,         \* the cache: period id -> NoOwner, or the worker whose cache.set wrote the entry
    payments,     \* committed PayrollPayment rows: period id -> employee -> count
    salaries,     \* committed EmployeeSalary rows: period id -> employee -> count
    statusWrites, \* period id -> number of committed status := 'completed' writes
    op,           \* worker -> the operation it runs
    pc,           \* worker -> its position in that operation
    cur,          \* worker -> the period id it is handling (0: none)
    queue,        \* worker -> the rest of the sweep's fetched periods
    processed,    \* worker -> processed_periods of its sweep
    skipped,      \* worker -> skipped_periods of its sweep
    failed,       \* worker -> failed_periods of its sweep
    res,          \* worker -> what its last process_payroll_period / run_payroll call gave
    run,          \* worker -> the PayrollProcessor instance of its run_payroll
    hist,         \* worker -> what the operation has done so far (history)
    opsStarted,   \* operations started so far
    dueResult,    \* what the last is_due_for_automation() evaluation gave
    calc          \* the last evaluation of a calculation: its arguments and what it gave

vars == <<today, periods, lock, payments, salaries, statusWrites, op, pc, cur,
          queue, processed, skipped, failed, res, run, hist, opsStarted, dueResult, calc>>

-----------------------------------------------------------------------------
(* Dates: datetime.date as used by models.py                               *)

MINYEAR == 1
MAXYEAR == 9999
MaxOrdinal == 3652059
MaxDeltaDays == 999999999

IsLeap(y) == (y % 4 = 0) /\ ((y % 100 # 0) \/ (y % 400 = 0))

DaysInMonth(y, m) ==
    IF m = 2 THEN (IF IsLeap(y) THEN 29 ELSE 28)
    ELSE IF m \in {4, 6, 9, 11} THEN 30 ELSE 31

DaysBeforeYear(y) ==
    (y - 1) * 365 + ((y - 1) \div 4) - ((y - 1) \div 100) + ((y - 1) \div 400)

RECURSIVE DaysBeforeMonth(_, _)
DaysBeforeMonth(y, m) ==
    IF m = 1 THEN 0 ELSE DaysBeforeMonth(y, m - 1) + DaysInMonth(y, m - 1)

Ymd2Ord(y, m, d) == DaysBeforeYear(y) + DaysBeforeMonth(y, m) + d

\* The value a rule key can hold (JSON): t is its kind.
\*   "absent"  the key is not in the rule
\*   "str"     a string of the shape YYYY-MM-DD with the digits y, m, d
\*   "text"    a string of another shape ('invalid-date', 'abc')
\*   "int"     a JSON integer v
\*   "null"    JSON null
Absent == [t |-> "absent", y |-> 0, m |-> 0, d |-> 0, v |-> 0]
DateStr(yy, mm, dd) == [t |-> "str", y |-> yy, m |-> mm, d |-> dd, v |-> 0]
Text == [t |-> "text", y |-> 0, m |-> 0, d |-> 0, v |-> 0]
IntVal(n) == [t |-> "int", y |-> 0, m |-> 0, d |-> 0, v |-> n]
Null == [t |-> "null", y |-> 0, m |-> 0, d |-> 0, v |-> 0]

\* What a call gives: a value (err = "none") or the exception it raises.
Ok(x) == [err |-> "none", val |-> x]
Raise(e) == [err |-> e, val |-> 0]

\* datetime.strptime(value, '%Y-%m-%d').date()
Strptime(value) ==
    IF value.t \notin {"str", "text"} THEN Raise("TypeError")
    ELSE IF value.t = "text" THEN Raise("ValueError")
    ELSE IF value.y < MINYEAR \/ value.y > MAXYEAR THEN Raise("ValueError")
    ELSE IF value.m < 1 \/ value.m > 12 THEN Raise("ValueError")
    ELSE IF value.d < 1 \/ value.d > DaysInMonth(value.y, value.m) THEN Raise("ValueError")
    ELSE Ok(Ymd2Ord(value.y, value.m, value.d))

\* int(value)
IntCast(value) ==
    IF value.t = "int" THEN Ok(value.v)
    ELSE IF value.t \in {"str", "text"} THEN Raise("ValueError")
    ELSE Raise("TypeError")

\* end_date - timezone.timedelta(days=n)
DateMinusDays(ord, n) ==
    IF n > MaxDeltaDays \/ n < -MaxDeltaDays THEN Raise("OverflowError")
    ELSE IF ord - n < 1 \/ ord - n > MaxOrdinal THEN Raise("OverflowError")
    ELSE Ok(ord - n)

-----------------------------------------------------------------------------
(* PayrollPeriod.is_due_for_automation                                     *)

\* automation_rule: None (nil), or a JSON object with the three rule keys and
\* possibly keys the evaluator does not know (other).
RuleNone == [nil |-> TRUE, run_on_date |-> Absent, days_before_end |-> Absent,
             cron |-> FALSE, other |-> FALSE]
Rule(r, n, c, o) == [nil |-> FALSE, run_on_date |-> r, days_before_end |-> n,
                     cron |-> c, other |-> o]

\* not self.automation_rule: None or an empty object
RuleFalsy(rule) ==
    rule.nil \/ (rule.run_on_date.t = "absent" /\ rule.days_before_end.t = "absent"
                 /\ ~rule.cron /\ ~rule.other)

BoolStr(b) == IF b THEN "True" ELSE "False"

RunOnDateReached(d, run_date) == d >= run_date

\* today == run_date
RunOnDateMatches(d, run_date) == d = run_date

\* today == target_date
TargetMatches(d, target_date) == d = target_date

GateClosedEnabledOnly(per) == ~per.automation_enabled

\* not self.automation_enabled or self.status != 'active'
GateClosed(per) == ~per.automation_enabled \/ per.status # "active"

\* The run_on_date block: a decision, "pass" (fall through) or the exception
\* that leaves the method.
RunOnDateBranch(rule, d) ==
    IF rule.run_on_date.t = "absent" THEN "pass"
    ELSE LET r == Strptime(rule.run_on_date) IN
         IF r.err = "none" THEN BoolStr(RunOnDateMatches(d, r.val))
         ELSE IF r.err \in {"ValueError", "KeyError"} THEN "pass"
         ELSE r.err

\* The days_before_end block.
DaysBeforeEndBranch(per, d) ==
    IF per.automation_rule.days_before_end.t = "absent" THEN "pass"
    ELSE LET c == IntCast(per.automation_rule.days_before_end) IN
         IF c.err # "none"
         THEN (IF c.err \in {"ValueError", "KeyError", "TypeError"} THEN "pass" ELSE c.err)
         ELSE LET tg == DateMinusDays(per.end_date, c.val) IN
              IF tg.err # "none"
              THEN (IF tg.err \in {"ValueError", "KeyError", "TypeError"} THEN "pass" ELSE tg.err)
              ELSE BoolStr(TargetMatches(d, tg.val))

\* The cron key parsed and found not to match: never due.
CronBranchNever(rule) == "False"

\* The cron block and the final return False.
CronBranch(rule) == IF rule.cron THEN "True" ELSE "False"

\* is_due_for_automation() of period row per on date d: "True", "False", or the
\* name of the exception it raises.
is_due_for_automation(per, d) ==
    IF GateClosed(per) THEN "False"
    ELSE IF RuleFalsy(per.automation_rule) THEN "False"
    ELSE LET a == RunOnDateBranch(per.automation_rule, d) IN
         IF a # "pass" THEN a
         ELSE LET b == DaysBeforeEndBranch(per, d) IN
              IF b # "pass" THEN b
              ELSE CronBranch(per.automation_rule)

-----------------------------------------------------------------------------
(* The stores                                                              *)

NumEmployees == 1     \* active employees (User rows with is_active)
MaxOps == 2           \* operations started in one behaviour

Workers == {"w1", "w2"}       \* concurrent task workers / request threads
PeriodIds == {1, 2}           \* the stored PayrollPeriod ids
MissingId == 99999            \* an id no stored period has
TriggerIds == {2, MissingId}     \* the ids manual triggers and requests name
Employees == 1 .. NumEmployees

NoOwner == "free"
Today0 == Ymd2Ord(2024, 2, 26)

Statuses == {"active", "completed", "cancelled"}

Row(sd, ed, ty, en, rule, st) ==
    [start_date |-> sd, end_date |-> ed, period_type |-> ty,
     automation_enabled |-> en, automation_rule |-> rule, status |-> st]

\* {'days_before_end': 3}, {'days_before_end': 5}, {'cron': '0 0 25 * *'},
\* {'run_on_date': 20240226}
RuleDays3 == Rule(Absent, IntVal(3), FALSE, FALSE)
RuleDays5 == Rule(Absent, IntVal(5), FALSE, FALSE)
RuleCron == Rule(Absent, Absent, TRUE, FALSE)
RuleBadDate == Rule(IntVal(20240226), Absent, FALSE, FALSE)

\* The tables a behaviour can start from. Period 1 is monthly, period 2 weekly,
\* both end three days after Today0; period 1 is enabled and active.
InitTable(r1, e2, r2, s2) ==
    [p \in PeriodIds |->
        IF p = 1 THEN Row(Today0 - 30, Today0 + 3, "monthly", TRUE, r1, "active")
        ELSE Row(Today0 - 3, Today0 + 3, "weekly", e2, r2, s2)]

InitTables ==
    { InitTable(RuleDays3, TRUE, RuleDays3, "active"),
      InitTable(RuleDays3, FALSE, RuleDays3, "active") }

\* The tables the sweeps are run over: period 2 is due, has a rule whose
\* evaluation raises, is disabled, is not due today, or is already completed.
SweepTables ==
    InitTables \cup
    { InitTable(RuleDays3, TRUE, RuleBadDate, "active"),
      InitTable(RuleDays3, TRUE, RuleDays5, "active"),
      InitTable(RuleDays3, TRUE, RuleCron, "completed") }

\* PayrollPeriod.objects.filter(automation_enabled=True, status='active')
Eligible(tbl) ==
    {p \in DOMAIN tbl : tbl[p].automation_enabled /\ tbl[p].status = "active"}

\* Meta.ordering = ['-start_date']: the ids of S by start_date, latest first.
RECURSIVE OrderByStartDesc(_, _)
OrderByStartDesc(tbl, S) ==
    IF S = {} THEN <<>>
    ELSE LET first == CHOOSE p \in S :
                 \A q \in S : tbl[q].start_date < tbl[p].start_date \/ (tbl[q].start_date = tbl[p].start_date /\ q >= p)
         IN <<first>> \o OrderByStartDesc(tbl, S \ {first})

LockHeldNever(lk, p) == FALSE

\* cache.get(cache_key) is truthy
LockHeld(lk, p) == lk[p] # NoOwner

\* cache.set(cache_key, True, timeout=3600) by worker w
SetLock(lk, p, w) == [lk EXCEPT ![p] = w]

ReleaseLockOtherKey(lk, p) == lk

\* An entry set without a timeout stays until it is deleted.
EntryExpiresNever(lk, p) == FALSE

\* cache.set(cache_key, True, timeout=3600): a present entry expires once its
\* timeout has elapsed.
EntryExpires(lk, p) == lk[p] # NoOwner

\* cache.delete(cache_key)
ReleaseLock(lk, p) == [lk EXCEPT ![p] = NoOwner]

-----------------------------------------------------------------------------
(* Results and local state                                                 *)

NoRes == [kind |-> "none", status |-> "", exc |-> "", msg |-> "", count |-> 0, errors |-> <<>>]
Returned(st, m, n, errs) ==
    [kind |-> "return", status |-> st, exc |-> "", msg |-> m, count |-> n, errors |-> errs]
Raised(e, m) ==
    [kind |-> "raise", status |-> "", exc |-> e, msg |-> m, count |-> 0, errors |-> <<>>]

\* PayrollProcessor.__init__
NewProcessor == [idx |-> 1, processed_count |-> 0, errors |-> <<>>,
                 pendPay |-> {}, pendSal |-> {}]

\* History of one operation: the table as it was when the operation started
\* (snap), the periods whose lock entry it set (acquired) and deleted
\* (released), for which it called process_payroll_period (invoked), whose
\* lock entry it found present (sawLocked), whose status it wrote (wrote), the
\* exceptions raised while it evaluated or processed a period (raised), the
\* periods whose processing returned (returned), and of its last
\* process_payroll_period call the status read (pppSaw), whether the
\* processor was invoked (ranProcessor), the status _get_payroll_period read
\* (runSaw), the attempts made (attempts) and whether the last attempt met an
\* unexpected exception (lastFault); of a manual trigger, its force flag; the
\* periods whose lock entry, set by this worker, expired after the worker
\* crashed (expired), and those whose lock entry it set after the entry of a
\* crashed worker had expired (afterExpiry); of its last run_payroll, the
\* employees _process_employee_payroll was called for (attempted), those for
\* whom it raised (failedEmp) and those of whom a record was not persisted
\* (unsaved).
NoHist(tbl) == [snap |-> tbl, acquired |-> {}, invoked |-> {}, sawLocked |-> {},
                raised |-> {}, returned |-> {}, pppSaw |-> "none",
                ranProcessor |-> FALSE, wrote |-> {}, released |-> {},
                runSaw |-> "none", attempts |-> 0, lastFault |-> FALSE, force |-> FALSE,
                expired |-> {}, afterExpiry |-> {},
                attempted |-> {}, failedEmp |-> {}, unsaved |-> {}]

\* A process_payroll_period / run_payroll call starts: nothing read yet.
NewCall(h) == [h EXCEPT !.pppSaw = "none", !.ranProcessor = FALSE, !.runSaw = "none",
                        !.attempts = 0, !.lastFault = FALSE,
                        !.attempted = {}, !.failedEmp = {}, !.unsaved = {}]

NoteResult(h, pid, r) ==
    IF r.kind = "raise" THEN [h EXCEPT !.raised = @ \cup {<<pid, "", r.msg>>}]
    ELSE [h EXCEPT !.returned = @ \cup {pid}]

Ids(list) == {list[i].period_id : i \in 1 .. Len(list)}

dbVars == <<periods, payments, salaries, statusWrites>>
sweepVars == <<queue, processed, skipped, failed>>

-----------------------------------------------------------------------------
(* Initial state                                                           *)

\* No calculation has been evaluated.
NoCalc == [fn |-> "none"]

InitLocal ==
    /\ lock = [p \in PeriodIds |-> NoOwner]
    /\ payments = [p \in PeriodIds |-> [e \in Employees |-> 0]]
    /\ salaries = [p \in PeriodIds |-> [e \in Employees |-> 0]]
    /\ statusWrites = [p \in PeriodIds |-> 0]
    /\ op = [w \in Workers |-> "none"]
    /\ pc = [w \in Workers |-> "idle"]
    /\ cur = [w \in Workers |-> 0]
    /\ queue = [w \in Workers |-> <<>>]
    /\ processed = [w \in Workers |-> <<>>]
    /\ skipped = [w \in Workers |-> <<>>]
    /\ failed = [w \in Workers |-> <<>>]
    /\ res = [w \in Workers |-> NoRes]
    /\ run = [w \in Workers |-> NewProcessor]
    /\ hist = [w \in Workers |-> NoHist(periods)]
    /\ opsStarted = 0
    /\ dueResult = "none"
    /\ calc = NoCalc

Init ==
    /\ today = Today0
    /\ periods \in InitTables
    /\ InitLocal

-----------------------------------------------------------------------------
(* auto_run_payroll: the sweep                                             *)

\* A worker is free and one more operation may start. The workers are
\* interchangeable, so of two behaviours that differ only in the workers' names
\* one is kept: the first operation starts on the first worker.
FirstWorker == "w1"
MayStart(w) ==
    /\ pc[w] = "idle"
    /\ opsStarted < MaxOps
    /\ (w = FirstWorker \/ opsStarted > 0)

\* if not period.is_due_for_automation(): continue
SweepSkipsNever(outcome) == FALSE

SweepSkipsPeriod(outcome) == outcome = "False"

\* Lines 38-45: the sweep starts and fetches the eligible periods.
StartSweep(w) ==
    /\ MayStart(w)
    /\ opsStarted' = opsStarted + 1
    /\ op' = [op EXCEPT ![w] = "sweep"]
    /\ pc' = [pc EXCEPT ![w] = "loop"]
    /\ cur' = [cur EXCEPT ![w] = 0]
    /\ queue' = [queue EXCEPT ![w] = OrderByStartDesc(periods, Eligible(periods))]
    /\ processed' = [processed EXCEPT ![w] = <<>>]
    /\ skipped' = [skipped EXCEPT ![w] = <<>>]
    /\ failed' = [failed EXCEPT ![w] = <<>>]
    /\ res' = [res EXCEPT ![w] = NoRes]
    /\ hist' = [hist EXCEPT ![w] = NoHist(periods)]
    /\ UNCHANGED <<today, dbVars, lock, run, dueResult, calc>>

\* Lines 47-62: the next fetched period is evaluated on the object the fetch
\* returned; a due one is looked up in the cache.
SweepEval(w) ==
    /\ op[w] = "sweep" /\ pc[w] = "loop" /\ queue[w] # <<>>
    /\ LET p == Head(queue[w])
           out == is_due_for_automation(hist[w].snap[p], today)
       IN  IF out \notin {"True", "False"}
           THEN \* is_due_for_automation raised: lines 87-92
                /\ failed' = [failed EXCEPT ![w] =
                       Append(@, [period_id |-> p, prefix |-> "Evaluation error: ", error |-> out])]
                /\ queue' = [queue EXCEPT ![w] = Tail(@)]
                /\ hist' = [hist EXCEPT ![w].raised = @ \cup {<<p, "Evaluation error: ", out>>}]
                /\ UNCHANGED <<skipped, pc, cur>>
           ELSE IF SweepSkipsPeriod(out)
           THEN /\ queue' = [queue EXCEPT ![w] = Tail(@)]
                /\ UNCHANGED <<failed, skipped, pc, cur, hist>>
           ELSE IF LockHeld(lock, p)
           THEN /\ skipped' = [skipped EXCEPT ![w] =
                       Append(@, [period_id |-> p, reason |-> "Already processing"])]
                /\ queue' = [queue EXCEPT ![w] = Tail(@)]
                /\ hist' = [hist EXCEPT ![w].sawLocked =
                       IF lock[p] # NoOwner THEN @ \cup {p} ELSE @]
                /\ UNCHANGED <<failed, pc, cur>>
           ELSE /\ pc' = [pc EXCEPT ![w] = "set"]
                /\ cur' = [cur EXCEPT ![w] = p]
                /\ hist' = [hist EXCEPT ![w].sawLocked =
                       IF lock[p] # NoOwner THEN @ \cup {p} ELSE @]
                /\ UNCHANGED <<failed, skipped, queue>>
    /\ UNCHANGED <<today, dbVars, lock, op, processed, res, run, opsStarted, dueResult, calc>>

\* Lines 64-65: cache.set(cache_key, True, timeout=3600)
SweepSetLock(w) ==
    /\ op[w] = "sweep" /\ pc[w] = "set"
    /\ lock' = SetLock(lock, cur[w], w)
    /\ pc' = [pc EXCEPT ![w] = "ppp"]
    /\ hist' = [hist EXCEPT ![w] = NewCall([@ EXCEPT
           !.acquired = @ \cup {cur[w]},
           !.afterExpiry = IF \E v \in Workers : pc[v] = "crashed" /\ cur[w] \in hist[v].expired
                           THEN @ \cup {cur[w]} ELSE @])]
    /\ UNCHANGED <<today, dbVars, op, cur, sweepVars, res, run, opsStarted, dueResult, calc>>

\* The per-period handlers missing: what process_payroll_period raises leaves
\* the loop and the sweep (line 109), after the finally block.
SweepAfterAbort(w) ==
    /\ op[w] = "sweep" /\ pc[w] = "after"
    /\ IF res[w].kind = "return"
       THEN /\ processed' = [processed EXCEPT ![w] =
                   Append(@, [period_id |-> cur[w], result |-> res[w]])]
            /\ queue' = [queue EXCEPT ![w] = Tail(@)]
            /\ pc' = [pc EXCEPT ![w] = "loop"]
       ELSE /\ queue' = [queue EXCEPT ![w] = <<>>]
            /\ pc' = [pc EXCEPT ![w] = "idle"]
            /\ UNCHANGED processed
    /\ lock' = ReleaseLock(lock, cur[w])
    /\ hist' = [hist EXCEPT ![w].released = @ \cup {cur[w]}]
    /\ cur' = [cur EXCEPT ![w] = 0]
    /\ UNCHANGED <<today, dbVars, op, skipped, failed, res, run, opsStarted, dueResult, calc>>

\* Lines 69-85: process_payroll_period has returned or raised; the period is
\* recorded and, in the finally block, the lock entry deleted.
SweepAfter(w) ==
    /\ op[w] = "sweep" /\ pc[w] = "after"
    /\ IF res[w].kind = "return"
       THEN /\ processed' = [processed EXCEPT ![w] =
                   Append(@, [period_id |-> cur[w], result |-> res[w]])]
            /\ UNCHANGED failed
       ELSE /\ failed' = [failed EXCEPT ![w] =
                   Append(@, [period_id |-> cur[w], prefix |-> "", error |-> res[w].msg])]
            /\ UNCHANGED processed
    /\ lock' = ReleaseLock(lock, cur[w])
    /\ hist' = [hist EXCEPT ![w].released = @ \cup {cur[w]}]
    /\ queue' = [queue EXCEPT ![w] = Tail(@)]
    /\ pc' = [pc EXCEPT ![w] = "loop"]
    /\ cur' = [cur EXCEPT ![w] = 0]
    /\ UNCHANGED <<today, dbVars, op, skipped, res, run, opsStarted, dueResult, calc>>

\* Lines 69-92 when the cache does not answer the cache.delete of line 85:
\* the period is recorded as at lines 70-81, then the exception raised in the
\* finally block leaves the inner try statement and is caught by the handler
\* of line 87, which records the period in failed_periods; the entry stays.
SweepAfterReleaseFault(w) ==
    /\ op[w] = "sweep" /\ pc[w] = "after"
    /\ LET again == [period_id |-> cur[w], prefix |-> "Evaluation error: ",
                     error |-> "cache unavailable"]
       IN  IF res[w].kind = "return"
           THEN /\ processed' = [processed EXCEPT ![w] =
                       Append(@, [period_id |-> cur[w], result |-> res[w]])]
                /\ failed' = [failed EXCEPT ![w] = Append(@, again)]
           ELSE /\ failed' = [failed EXCEPT ![w] =
                       Append(Append(@, [period_id |-> cur[w], prefix |-> "",
                                         error |-> res[w].msg]), again)]
                /\ UNCHANGED processed
    /\ hist' = [hist EXCEPT ![w].raised =
           @ \cup {<<cur[w], "Evaluation error: ", "cache unavailable">>}]
    /\ queue' = [queue EXCEPT ![w] = Tail(@)]
    /\ pc' = [pc EXCEPT ![w] = "loop"]
    /\ cur' = [cur EXCEPT ![w] = 0]
    /\ UNCHANGED <<today, dbVars, lock, op, skipped, res, run, opsStarted, dueResult, calc>>

\* Lines 94-105: the summary is built and returned.
SweepReturn(w) ==
    /\ op[w] = "sweep" /\ pc[w] = "loop" /\ queue[w] = <<>>
    /\ pc' = [pc EXCEPT ![w] = "idle"]
    /\ res' = [res EXCEPT ![w] =
           [kind |-> "report", status |-> "", exc |-> "", msg |-> "",
            count |-> Len(processed[w]), errors |-> <<Len(skipped[w]), Len(failed[w])>>]]
    /\ UNCHANGED <<today, dbVars, lock, op, cur, sweepVars, run, hist, opsStarted, dueResult, calc>>

-----------------------------------------------------------------------------
(* process_payroll_period and PayrollProcessor.run_payroll                  *)

MaxRetries == 2

\* Every exception raised in the try block is retried while retries are left.
PppHandlerRetryAll(exc, msg, retries) ==
    [retry |-> retries < MaxRetries, exc |-> exc, msg |-> msg]

\* tasks.py lines 163-176, the handlers of process_payroll_period, entered
\* with exception exc when self.request.retries is retries: whether a retry is
\* scheduled and, if none is, the exception that leaves the task.
\* PayrollProcessorError is re-raised (line 166). For any other exception line
\* 171 reads self.request.retries, and the function has no name self: the
\* NameError leaves the handler before a retry is scheduled.
PppHandler(exc, msg, retries) ==
    IF exc = "PayrollProcessorError"
    THEN [retry |-> FALSE, exc |-> exc, msg |-> msg]
    ELSE [retry |-> FALSE, exc |-> "NameError", msg |-> "name 'self' is not defined"]

\* Control goes back to the caller of process_payroll_period / run_payroll
\* with result r: the sweep goes on at line 70 or 76, a manual trigger and the
\* HTTP endpoint hand r to their caller. h is the worker's history so far.
\* What is raised inside process_payroll_period passes through its handlers.
Finish(w, r, h) ==
    LET viaTask == op[w] \in {"sweep", "manual"} /\ r.kind = "raise"
        hd == PppHandler(r.exc, r.msg, h.attempts - 1)
        out == IF viaTask THEN Raised(hd.exc, hd.msg) ELSE r
    IN  IF viaTask /\ hd.retry
        THEN /\ pc' = [pc EXCEPT ![w] = "ppp"]
             /\ run' = [run EXCEPT ![w] = NewProcessor]
             /\ hist' = [hist EXCEPT ![w] = h]
             /\ UNCHANGED res
        ELSE /\ res' = [res EXCEPT ![w] = out]
             /\ run' = [run EXCEPT ![w] = NewProcessor]
             /\ pc' = [pc EXCEPT ![w] = IF op[w] = "sweep" THEN "after" ELSE "idle"]
             /\ hist' = [hist EXCEPT ![w] = NoteResult(h, cur[w], out)]

AlreadyCompletedNever(st) == FALSE

\* period.status == 'completed' (tasks.py line 139)
AlreadyCompleted(st) == st = "completed"

\* tasks.py lines 131-154: the period is re-fetched and its status checked.
PppGet(w) ==
    /\ op[w] \in {"sweep", "manual"} /\ pc[w] = "ppp"
    /\ LET pid == cur[w]
           saw == IF pid \in DOMAIN periods THEN periods[pid].status ELSE "missing"
           h == [hist[w] EXCEPT !.invoked = @ \cup {pid}, !.pppSaw = saw,
                                !.ranProcessor = FALSE, !.attempts = @ + 1,
                                !.lastFault = FALSE]
       IN
       IF pid \notin DOMAIN periods
       THEN Finish(w, Raised("PayrollProcessorError", "not found"), h)
       ELSE IF AlreadyCompleted(periods[pid].status)
       THEN Finish(w, Returned("already_completed", "Period was already processed", 0, <<>>), h)
       ELSE IF periods[pid].status # "active"
       THEN Finish(w, Raised("PayrollProcessorError", "cannot process"), h)
       ELSE /\ pc' = [pc EXCEPT ![w] = "run_get"]
            /\ run' = [run EXCEPT ![w] = NewProcessor]
            /\ hist' = [hist EXCEPT ![w] = [h EXCEPT !.ranProcessor = TRUE]]
            /\ UNCHANGED res
    /\ UNCHANGED <<today, dbVars, lock, op, cur, sweepVars, opsStarted, dueResult, calc>>

\* Only a completed period is turned away.
RunRejectsCompletedOnly(st) == st = "completed"

\* payroll_processor.py lines 162-166: _get_payroll_period turns a completed
\* and a cancelled period away.
RunRejects(st) == st = "completed" \/ st = "cancelled"

\* payroll_processor.py lines 122-126 and 155-168: _get_payroll_period. What it
\* raises leaves run_payroll as PayrollProcessorError (lines 151-153), which
\* process_payroll_period re-raises (tasks.py lines 163-166).
RunGet(w) ==
    /\ pc[w] = "run_get"
    /\ LET pid == cur[w]
           saw == IF pid \in DOMAIN periods THEN periods[pid].status ELSE "missing"
           h == [hist[w] EXCEPT !.runSaw = saw]
       IN
       IF pid \notin DOMAIN periods
       THEN Finish(w, Raised("PayrollProcessorError", "Payroll processing failed: not found"), h)
       ELSE IF RunRejects(periods[pid].status)
       THEN Finish(w, Raised("PayrollProcessorError",
                             IF periods[pid].status = "completed"
                             THEN "Payroll processing failed: already completed"
                             ELSE "Payroll processing failed: cancelled"), h)
       ELSE /\ pc' = [pc EXCEPT ![w] = "run_emp"]
            /\ hist' = [hist EXCEPT ![w] = h]
            /\ UNCHANGED <<res, run>>
    /\ UNCHANGED <<today, dbVars, lock, op, cur, sweepVars, opsStarted, dueResult, calc>>

\* Every attempted employee is counted.
CountsAsProcessedAlways(outcome) == TRUE

\* payroll_processor.py lines 135-137: processed_count += 1 is reached when
\* _process_employee_payroll has returned.
CountsAsProcessed(outcome) == outcome # "error"

\* payroll_processor.py lines 133-140: one employee is processed inside the
\* transaction. Either the records are written (pending until the commit) or
\* the employee's processing raises and the error is recorded.
RunEmployee(w) ==
    /\ pc[w] = "run_emp" /\ run[w].idx <= NumEmployees
    /\ LET e == run[w].idx IN
       \E outcome \in {"ok", "error"} :
          /\ run' = [run EXCEPT ![w] =
                 [@ EXCEPT !.idx = e + 1,
                           !.processed_count = IF CountsAsProcessed(outcome) THEN @ + 1 ELSE @,
                           !.errors = IF outcome = "error" THEN Append(@, e) ELSE @,
                           !.pendPay = IF outcome = "ok" THEN @ \cup {e} ELSE @,
                           !.pendSal = IF outcome = "ok" /\ salaries[cur[w]][e] = 0
                                       THEN @ \cup {e} ELSE @]]
          /\ hist' = [hist EXCEPT ![w].attempted = @ \cup {e},
                                  ![w].failedEmp = IF outcome = "error" THEN @ \cup {e} ELSE @]
    /\ UNCHANGED <<today, dbVars, lock, op, pc, cur, sweepVars, res, opsStarted, dueResult, calc>>

\* payroll_processor.py lines 312-343 and 355-379: update_or_create or create
\* raises for the employee; the except Exception branch of the helper logs
\* the failure and returns a mock object, so _process_employee_payroll
\* returns and the employee is counted. lost names the records not written.
RunEmployeeUnsaved(w) ==
    /\ pc[w] = "run_emp" /\ run[w].idx <= NumEmployees
    /\ LET e == run[w].idx IN
       \E lost \in {{"salary"}, {"payment"}, {"salary", "payment"}} :
          /\ run' = [run EXCEPT ![w] =
                 [@ EXCEPT !.idx = e + 1,
                           !.processed_count = @ + 1,
                           !.pendPay = IF "payment" \notin lost THEN @ \cup {e} ELSE @,
                           !.pendSal = IF "salary" \notin lost /\ salaries[cur[w]][e] = 0
                                       THEN @ \cup {e} ELSE @]]
          /\ hist' = [hist EXCEPT ![w].attempted = @ \cup {e},
                                  ![w].unsaved = @ \cup {e}]
    /\ UNCHANGED <<today, dbVars, lock, op, pc, cur, sweepVars, res, opsStarted, dueResult, calc>>

\* The period is completed only when no employee failed.
CompletesPeriodIfClean(r) == r.errors = <<>>

\* payroll_processor.py line 143: _complete_period is called whatever the
\* loop recorded.
CompletesPeriod(r) == TRUE

\* payroll_processor.py lines 142-149 and 394-398: the status is written and
\* the transaction commits as run_payroll returns its summary.
RunComplete(w) ==
    /\ pc[w] = "run_emp" /\ run[w].idx > NumEmployees
    /\ LET pid == cur[w] IN
       /\ IF CompletesPeriod(run[w])
          THEN /\ periods' = [periods EXCEPT ![pid].status = "completed"]
               /\ statusWrites' = [statusWrites EXCEPT ![pid] = @ + 1]
          ELSE UNCHANGED <<periods, statusWrites>>
       /\ payments' = [payments EXCEPT ![pid] =
              [e \in Employees |-> IF e \in run[w].pendPay THEN @[e] + 1 ELSE @[e]]]
       /\ salaries' = [salaries EXCEPT ![pid] =
              [e \in Employees |-> IF e \in run[w].pendSal THEN @[e] + 1 ELSE @[e]]]
    /\ Finish(w, Returned("completed", "", run[w].processed_count, run[w].errors),
              IF CompletesPeriod(run[w]) THEN [hist[w] EXCEPT !.wrote = @ \cup {cur[w]}]
              ELSE hist[w])
    /\ UNCHANGED <<today, lock, op, cur, sweepVars, opsStarted, dueResult, calc>>

\* The records written so far are kept when run_payroll raises.
RolledBackNothing(db, pid, r) ==
    [db EXCEPT !.payments[pid] =
                   [e \in Employees |-> IF e \in r.pendPay THEN @[e] + 1 ELSE @[e]],
               !.salaries[pid] =
                   [e \in Employees |-> IF e \in r.pendSal THEN @[e] + 1 ELSE @[e]]]

\* payroll_processor.py line 108: @transaction.atomic. The exception leaves
\* run_payroll, the transaction is rolled back and the store is as it was
\* before the run's writes.
RolledBack(db, pid, r) == db

\* payroll_processor.py lines 143 and 396-397: period.save raises in
\* _complete_period; run_payroll wraps the exception in a
\* PayrollProcessorError (lines 151-153) and its transaction is rolled back.
RunCompleteFault(w) ==
    /\ pc[w] = "run_emp" /\ run[w].idx > NumEmployees
    /\ LET db == RolledBack([payments |-> payments, salaries |-> salaries], cur[w], run[w]) IN
       /\ payments' = db.payments
       /\ salaries' = db.salaries
    /\ Finish(w, Raised("PayrollProcessorError", "Payroll processing failed: save failed"),
              [hist[w] EXCEPT !.lastFault = TRUE])
    /\ UNCHANGED <<today, periods, statusWrites, lock, op, cur, sweepVars, opsStarted,
                   dueResult, calc>>

\* tasks.py line 134: the period store does not answer the lookup of
\* process_payroll_period; the exception, no PayrollProcessorError, goes to the
\* handler of line 168.
PppGetFault(w) ==
    /\ op[w] \in {"sweep", "manual"} /\ pc[w] = "ppp"
    /\ Finish(w, Raised("OperationalError", "store unavailable"),
              [hist[w] EXCEPT !.invoked = @ \cup {cur[w]}, !.attempts = @ + 1,
                              !.lastFault = TRUE])
    /\ UNCHANGED <<today, dbVars, lock, op, cur, sweepVars, opsStarted, dueResult, calc>>

\* payroll_processor.py lines 128-129: the store does not answer while the
\* active employees are loaded; run_payroll wraps the exception in a
\* PayrollProcessorError (lines 151-153) and its transaction is rolled back.
RunLoadFault(w) ==
    /\ pc[w] = "run_emp" /\ run[w].idx = 1
    /\ Finish(w, Raised("PayrollProcessorError", "Payroll processing failed: store unavailable"),
              [hist[w] EXCEPT !.lastFault = TRUE])
    /\ UNCHANGED <<today, dbVars, lock, op, cur, sweepVars, opsStarted, dueResult, calc>>

-----------------------------------------------------------------------------
(* The other callers                                                       *)

\* The force flag is ignored.
BypassesRulesNever(force) == FALSE

\* tasks.py line 212: if force
BypassesRules(force) == force

\* tasks.py lines 198-232: run_payroll_for_period(period_id, force)
StartManual(w, pid, force) ==
    /\ MayStart(w)
    /\ opsStarted' = opsStarted + 1
    /\ op' = [op EXCEPT ![w] = "manual"]
    /\ cur' = [cur EXCEPT ![w] = pid]
    /\ hist' = [hist EXCEPT ![w] = [NoHist(periods) EXCEPT !.force = force]]
    /\ IF BypassesRules(force)
       THEN /\ pc' = [pc EXCEPT ![w] = "ppp"]
            /\ res' = [res EXCEPT ![w] = NoRes]
       ELSE IF pid \notin DOMAIN periods
       THEN /\ pc' = [pc EXCEPT ![w] = "idle"]
            /\ res' = [res EXCEPT ![w] = Returned("error", "Period not found", 0, <<>>)]
       ELSE LET out == is_due_for_automation(periods[pid], today) IN
            IF out \notin {"True", "False"}
            THEN /\ pc' = [pc EXCEPT ![w] = "idle"]
                 /\ res' = [res EXCEPT ![w] = Raised(out, out)]
            ELSE IF out = "True" \/ periods[pid].automation_enabled
            THEN /\ pc' = [pc EXCEPT ![w] = "ppp"]
                 /\ res' = [res EXCEPT ![w] = NoRes]
            ELSE /\ pc' = [pc EXCEPT ![w] = "idle"]
                 /\ res' = [res EXCEPT ![w] =
                        Returned("skipped", "Period is not due for automation", 0, <<>>)]
    /\ UNCHANGED <<today, dbVars, lock, sweepVars, run, dueResult, calc>>

\* payroll_period_views.py lines 431-463: PayrollRunAPIView.post looks the
\* period up and calls PayrollProcessor().run_payroll(period_id).
StartHttp(w, pid) ==
    /\ MayStart(w)
    /\ opsStarted' = opsStarted + 1
    /\ op' = [op EXCEPT ![w] = "http"]
    /\ cur' = [cur EXCEPT ![w] = pid]
    /\ hist' = [hist EXCEPT ![w] = NoHist(periods)]
    /\ IF pid \notin DOMAIN periods
       THEN /\ pc' = [pc EXCEPT ![w] = "idle"]
            /\ res' = [res EXCEPT ![w] = Raised("Http404", "Payroll period not found")]
            /\ UNCHANGED run
       ELSE /\ pc' = [pc EXCEPT ![w] = "run_get"]
            /\ res' = [res EXCEPT ![w] = NoRes]
            /\ run' = [run EXCEPT ![w] = NewProcessor]
    /\ UNCHANGED <<today, dbVars, lock, sweepVars, dueResult, calc>>

\* payroll_processor.py lines 421-435: run_payroll(period_id), the processor
\* called directly.
StartDirect(w, pid) ==
    /\ MayStart(w)
    /\ opsStarted' = opsStarted + 1
    /\ op' = [op EXCEPT ![w] = "direct"]
    /\ cur' = [cur EXCEPT ![w] = pid]
    /\ hist' = [hist EXCEPT ![w] = NoHist(periods)]
    /\ pc' = [pc EXCEPT ![w] = "run_get"]
    /\ res' = [res EXCEPT ![w] = NoRes]
    /\ run' = [run EXCEPT ![w] = NewProcessor]
    /\ UNCHANGED <<today, dbVars, lock, sweepVars, dueResult, calc>>

\* An administrator cancels an active period (an update of the row through
\* the period API, payroll_period_views.py).
AdminCancel(p) ==
    /\ periods[p].status = "active"
    /\ periods' = [periods EXCEPT ![p].status = "cancelled"]
    /\ UNCHANGED <<today, lock, payments, salaries, statusWrites, op, pc, cur, sweepVars,
                   res, run, hist, opsStarted, dueResult, calc>>

Next ==
    \/ \E w \in Workers : StartSweep(w)
    \/ \E w \in Workers : SweepEval(w)
    \/ \E w \in Workers : SweepSetLock(w)
    \/ \E w \in Workers : SweepAfter(w)
    \/ \E w \in Workers : SweepReturn(w)
    \/ \E w \in Workers : PppGet(w)
    \/ \E w \in Workers : RunGet(w)
    \/ \E w \in Workers : RunEmployee(w)
    \/ \E w \in Workers : RunComplete(w)
    \/ \E w \in Workers, pid \in TriggerIds, force \in BOOLEAN :
           StartManual(w, pid, force)
    \/ \E w \in Workers, pid \in TriggerIds : StartHttp(w, pid)
    \/ \E w \in Workers, pid \in TriggerIds : StartDirect(w, pid)
    \/ \E p \in PeriodIds : AdminCancel(p)

Spec == Init /\ [][Next]_vars

\* The single-period run and its callers (the manual trigger, the run
\* endpoint), with an administrator cancelling periods beside them.
NextSingle ==
    \/ \E w \in Workers : PppGet(w)
    \/ \E w \in Workers : RunGet(w)
    \/ \E w \in Workers : RunEmployee(w)
    \/ \E w \in Workers : RunComplete(w)
    \/ \E w \in Workers, pid \in TriggerIds, force \in BOOLEAN :
           StartManual(w, pid, force)
    \/ \E w \in Workers, pid \in TriggerIds : StartHttp(w, pid)
    \/ \E w \in Workers, pid \in TriggerIds : StartDirect(w, pid)
    \/ \E p \in PeriodIds : AdminCancel(p)

SpecSingle == Init /\ [][NextSingle]_vars

\* The single-period run with a period store that may fail to answer.
NextFault ==
    \/ \E w \in Workers : PppGet(w)
    \/ \E w \in Workers : PppGetFault(w)
    \/ \E w \in Workers : RunGet(w)
    \/ \E w \in Workers : RunLoadFault(w)
    \/ \E w \in Workers : RunEmployee(w)
    \/ \E w \in Workers : RunComplete(w)
    \/ \E w \in Workers, pid \in TriggerIds, force \in BOOLEAN :
           StartManual(w, pid, force)
    \/ \E w \in Workers, pid \in TriggerIds : StartHttp(w, pid)
    \/ \E w \in Workers, pid \in TriggerIds : StartDirect(w, pid)
    \/ \E p \in PeriodIds : AdminCancel(p)

SpecFault == Init /\ [][NextFault]_vars

\* run_payroll called directly, with records that may fail to persist and a
\* status write that may fail, and an administrator cancelling periods
\* beside it.
NextRun ==
    \/ \E w \in Workers : RunGet(w)
    \/ \E w \in Workers : RunLoadFault(w)
    \/ \E w \in Workers : RunEmployee(w)
    \/ \E w \in Workers : RunEmployeeUnsaved(w)
    \/ \E w \in Workers : RunComplete(w)
    \/ \E w \in Workers : RunCompleteFault(w)
    \/ \E w \in Workers, pid \in TriggerIds : StartDirect(w, pid)
    \/ \E p \in PeriodIds : AdminCancel(p)

SpecRun == Init /\ [][NextRun]_vars

\* The worker of a sweep dies between its cache.set (tasks.py line 65) and its
\* cache.delete (line 85): the finally block does not run, the transaction
\* of a run_payroll in progress is rolled back, the lock entry stays.
Crash(w) ==
    /\ op[w] = "sweep" /\ pc[w] \in {"ppp", "run_get", "run_emp", "after"}
    /\ pc' = [pc EXCEPT ![w] = "crashed"]
    /\ run' = [run EXCEPT ![w] = NewProcessor]
    /\ UNCHANGED <<today, dbVars, lock, op, cur, sweepVars, res, hist, opsStarted, dueResult, calc>>

\* The timeout of the lock entry of period p has elapsed: the cache drops it.
Expire(p) ==
    /\ EntryExpires(lock, p)
    /\ lock' = [lock EXCEPT ![p] = NoOwner]
    /\ hist' = [w \in Workers |->
                   IF lock[p] = w /\ pc[w] = "crashed"
                   THEN [hist[w] EXCEPT !.expired = @ \cup {p}] ELSE hist[w]]
    /\ UNCHANGED <<today, dbVars, op, pc, cur, sweepVars, res, run, opsStarted, dueResult, calc>>

\* The sweeps with workers that may die and lock entries that expire. Time
\* passes, so an entry that can expire does.
NextCrash ==
    \/ \E w \in Workers : StartSweep(w)
    \/ \E w \in Workers : SweepEval(w)
    \/ \E w \in Workers : SweepSetLock(w)
    \/ \E w \in Workers : SweepAfter(w)
    \/ \E w \in Workers : SweepReturn(w)
    \/ \E w \in Workers : PppGet(w)
    \/ \E w \in Workers : RunGet(w)
    \/ \E w \in Workers : RunEmployee(w)
    \/ \E w \in Workers : RunComplete(w)
    \/ \E w \in Workers : Crash(w)
    \/ \E p \in PeriodIds : Expire(p)

\* Period 1 is due; period 2 is disabled and no sweep fetches it.
InitCrash ==
    /\ today = Today0
    /\ periods = InitTable(RuleDays3, FALSE, RuleDays3, "active")
    /\ InitLocal

SpecCrash ==
    InitCrash /\ [][NextCrash]_vars /\ \A p \in PeriodIds : WF_vars(Expire(p))

\* The sweeps alone, with an administrator cancelling periods beside them.
NextSweep ==
    \/ \E w \in Workers : StartSweep(w)
    \/ \E w \in Workers : SweepEval(w)
    \/ \E w \in Workers : SweepSetLock(w)
    \/ \E w \in Workers : SweepAfter(w)
    \/ \E w \in Workers : SweepReturn(w)
    \/ \E w \in Workers : PppGet(w)
    \/ \E w \in Workers : RunGet(w)
    \/ \E w \in Workers : RunEmployee(w)
    \/ \E w \in Workers : RunComplete(w)
    \/ \E p \in PeriodIds : AdminCancel(p)

InitSweep ==
    /\ today = Today0
    /\ periods \in SweepTables
    /\ InitLocal

SpecSweep == InitSweep /\ [][NextSweep]_vars

\* The sweeps with a cache that may fail to answer a cache.delete.
NextCacheFault ==
    \/ \E w \in Workers : StartSweep(w)
    \/ \E w \in Workers : SweepEval(w)
    \/ \E w \in Workers : SweepSetLock(w)
    \/ \E w \in Workers : SweepAfter(w)
    \/ \E w \in Workers : SweepAfterReleaseFault(w)
    \/ \E w \in Workers : SweepReturn(w)
    \/ \E w \in Workers : PppGet(w)
    \/ \E w \in Workers : RunGet(w)
    \/ \E w \in Workers : RunEmployee(w)
    \/ \E w \in Workers : RunComplete(w)

SpecCacheFault == InitSweep /\ [][NextCacheFault]_vars

\* run_payroll_for_period alone, over the tables of the sweeps.
NextManual ==
    \/ \E w \in Workers : PppGet(w)
    \/ \E w \in Workers : RunGet(w)
    \/ \E w \in Workers : RunEmployee(w)
    \/ \E w \in Workers : RunComplete(w)
    \/ \E w \in Workers, pid \in TriggerIds, force \in BOOLEAN :
           StartManual(w, pid, force)

SpecManual == InitSweep /\ [][NextManual]_vars

-----------------------------------------------------------------------------
(* PayrollPeriod.clean and PayrollPeriod.save: the period store             *)

MaxPeriods == 2       \* periods the store grows to
StoreSpan == 2        \* days the dates of a saved period range over

StoreDays == Today0 .. (Today0 + StoreSpan - 1)

\* {'invalid_key': 'value'}: a rule with none of the keys clean() knows
RuleUnknownKey == Rule(Absent, Absent, FALSE, TRUE)

\* The instances save() is called on.
StoreRows ==
    {Row(sd, ed, ty, TRUE, RuleDays3, "active") :
        sd \in StoreDays, ed \in StoreDays, ty \in {"monthly", "weekly"}}
    \cup {Row(Today0, Today0, "custom", TRUE, RuleUnknownKey, "active")}

\* Periods that only touch (one ends the day the other starts) do not count.
OverlapsStrictly(a, b) ==
    a.start_date < b.end_date /\ a.end_date > b.start_date /\ a.period_type = b.period_type

\* models.py lines 114-118: Q(start_date__lte=self.end_date) &
\* Q(end_date__gte=self.start_date) & Q(period_type=self.period_type), stored
\* row a against the instance b.
Overlaps(a, b) ==
    a.start_date <= b.end_date /\ a.end_date >= b.start_date /\ a.period_type = b.period_type

\* models.py lines 132-136: the stored row a has the dates and type of b.
Duplicates(a, b) ==
    a.start_date = b.start_date /\ a.end_date = b.end_date /\ a.period_type = b.period_type

\* models.py lines 155-156: the rule holds one of the valid keys.
HasValidKey(rule) ==
    rule.cron \/ rule.days_before_end.t # "absent" \/ rule.run_on_date.t # "absent"

\* PayrollPeriod.clean() of the instance with primary key id (0: not saved
\* yet) and fields row against the table tbl: the ValidationError it raises
\* (its field and the gist of its message), or "ok".
clean(tbl, id, row) ==
    LET others == {j \in DOMAIN tbl : j # id} IN
    IF row.end_date < row.start_date
    THEN "end_date: End date must be after start date."
    ELSE IF \E j \in others : Overlaps(tbl[j], row)
    THEN "start_date: This period overlaps with existing period"
    ELSE IF \E j \in others : Duplicates(tbl[j], row)
    THEN "start_date: A period with these exact dates already exists."
    ELSE IF ~RuleFalsy(row.automation_rule) /\ ~HasValidKey(row.automation_rule)
    THEN "automation_rule: Automation rule must contain at least one of"
    ELSE "ok"

\* models.py lines 161-166: save() of a new instance (id = 0) or of the stored
\* period id with its fields set to row: clean(), then the row is written.
Save(w, id, row) ==
    LET c == clean(periods, id, row) IN
    /\ pc[w] = "idle"
    /\ (id = 0 /\ c = "ok") => Len(periods) < MaxPeriods
    /\ op' = [op EXCEPT ![w] = "save"]
    /\ hist' = [hist EXCEPT ![w] = NoHist(periods)]
    /\ IF c # "ok"
       THEN /\ res' = [res EXCEPT ![w] = Raised("ValidationError", c)]
            /\ UNCHANGED <<periods, cur>>
       ELSE /\ res' = [res EXCEPT ![w] = Returned("saved", "", 0, <<>>)]
            /\ periods' = IF id = 0 THEN Append(periods, row)
                          ELSE [periods EXCEPT ![id] = row]
            /\ cur' = [cur EXCEPT ![w] = IF id = 0 THEN Len(periods) + 1 ELSE id]
    /\ UNCHANGED <<today, lock, payments, salaries, statusWrites, pc, sweepVars, run,
                   opsStarted, dueResult, calc>>

InitStore ==
    /\ today = Today0
    /\ periods = <<>>
    /\ InitLocal

\* A sequence of creations and updates.
NextStore ==
    \E id \in 0 .. Len(periods), row \in StoreRows : Save(FirstWorker, id, row)

SpecStore == InitStore /\ [][NextStore]_vars

-----------------------------------------------------------------------------
(* The due-check on its own: one period row and one date                   *)

DueWindow == 3        \* days before and after DueEnd that today ranges over
DueEnd == 738945      \* date(2024, 2, 29).toordinal()

DueDays == (DueEnd - DueWindow) .. (DueEnd + DueWindow)

RunOnDateValues ==
    {Absent, Text, Null, IntVal(20240229)}
    \cup {DateStr(2024, 2, d) : d \in 27 .. 30}
    \cup {DateStr(2024, 3, 1), DateStr(2024, 13, 1), DateStr(0, 1, 1), DateStr(2023, 2, 29)}

DaysBeforeEndValues ==
    {Absent, Text, Null}
    \cup {IntVal(n) : n \in -2 .. 3}
    \cup {IntVal(DueEnd - 1), IntVal(DueEnd), IntVal(-3000000), IntVal(1000000000)}

DueRules ==
    {RuleNone} \cup
    {Rule(r, n, c, o) : r \in RunOnDateValues, n \in DaysBeforeEndValues,
                        c \in BOOLEAN, o \in BOOLEAN}

DueRows ==
    {Row(DueEnd - 28, DueEnd, "monthly", en, rule, st) :
        en \in BOOLEAN, rule \in DueRules, st \in Statuses}

InitDue ==
    /\ today \in DueDays
    /\ \E row \in DueRows :
          periods = [p \in PeriodIds |->
                        IF p = 1 THEN row
                        ELSE Row(DueEnd - 3, DueEnd + 3, "weekly", FALSE, RuleNone, "active")]
    /\ InitLocal

\* period.is_due_for_automation() is called on period 1.
EvalDue ==
    /\ dueResult = "none"
    /\ dueResult' = is_due_for_automation(periods[1], today)
    /\ UNCHANGED <<today, periods, lock, payments, salaries, statusWrites, op, pc, cur,
                   queue, processed, skipped, failed, res, run, hist, opsStarted, calc>>

\* The next day begins.
DueTick ==
    /\ dueResult # "none"
    /\ today < DueEnd + DueWindow
    /\ today' = today + 1
    /\ dueResult' = "none"
    /\ UNCHANGED <<periods, lock, payments, salaries, statusWrites, op, pc, cur,
                   queue, processed, skipped, failed, res, run, hist, opsStarted, calc>>

NextDue == EvalDue \/ DueTick

SpecDue == InitDue /\ [][NextDue]_vars

-----------------------------------------------------------------------------
(* Calculations on their own: net salary and duration_days                 *)

MaxAmount == 5        \* amounts range over 0 .. MaxAmount thousand
DurationMargin == 1   \* days before 2024-02-01 and after 2024-02-29 the dates range over

Amounts == {k * 1000 : k \in 0 .. MaxAmount}

\* A net salary that is never below zero.
calculate_net_salary_clamped(gross_salary, deductions, taxes, insurance) ==
    IF gross_salary - deductions - taxes - insurance < 0 THEN 0
    ELSE gross_salary - deductions - taxes - insurance

\* payroll_processor.py lines 76-79
calculate_net_salary(gross_salary, deductions, taxes, insurance) ==
    gross_salary - deductions - taxes - insurance

\* _process_employee_payroll for one employee whose collated gross salary is
\* gross and whose calculators give deductions, taxes and insurance: the net
\* salary is handed to _update_employee_salary (EmployeeSalary.net_salary), to
\* _create_payroll_payment (PayrollPayment.amount) and to _update_totals.
ProcessEmployeePayroll(gross, deductions, taxes, insurance) ==
    /\ calc = NoCalc
    /\ LET net_salary == calculate_net_salary(gross, deductions, taxes, insurance) IN
       calc' = [fn |-> "_process_employee_payroll",
                gross_salary |-> gross, total_deductions |-> deductions,
                total_taxes |-> taxes, total_insurance |-> insurance,
                net_salary |-> net_salary, amount |-> net_salary,
                total_net_amount |-> net_salary]
    /\ UNCHANGED <<today, periods, lock, payments, salaries, statusWrites, op, pc, cur,
                   queue, processed, skipped, failed, res, run, hist, opsStarted,
                   dueResult>>

\* A date field that is not set (None): the day before date.min.
NoDate == Ymd2Ord(MINYEAR, 1, 1) - 1

DurationDays ==
    (Ymd2Ord(2024, 2, 1) - DurationMargin) .. (Ymd2Ord(2024, 2, 29) + DurationMargin)

\* The day count without the closing day.
duration_days_exclusive(start_date, end_date) ==
    IF start_date # NoDate /\ end_date # NoDate THEN end_date - start_date ELSE 0

\* models.py lines 183-190
duration_days(start_date, end_date) ==
    IF start_date # NoDate /\ end_date # NoDate THEN (end_date - start_date) + 1 ELSE 0

\* period.duration_days is read on a period with the given dates.
EvalDuration(start_date, end_date) ==
    /\ calc = NoCalc
    /\ calc' = [fn |-> "duration_days", start_date |-> start_date, end_date |-> end_date,
                value |-> duration_days(start_date, end_date)]
    /\ UNCHANGED <<today, periods, lock, payments, salaries, statusWrites, op, pc, cur,
                   queue, processed, skipped, failed, res, run, hist, opsStarted,
                   dueResult>>

InitCalc ==
    /\ today = Today0
    /\ periods \in InitTables
    /\ InitLocal

NextCalc ==
    \/ \E g \in Amounts, d \in Amounts, t \in Amounts, i \in Amounts :
          ProcessEmployeePayroll(g, d, t, i)
    \/ \E sd \in DurationDays \cup {NoDate}, ed \in DurationDays \cup {NoDate} :
          EvalDuration(sd, ed)

SpecCalc == InitCalc /\ [][NextCalc]_vars

-----------------------------------------------------------------------------
(* Properties                                                              *)

\* Worker w is a sweep that holds period p between its cache.set and its
\* cache.delete, with process_payroll_period running or about to run.
SweepInFlight(w, p) ==
    op[w] = "sweep" /\ cur[w] = p /\ pc[w] \in {"ppp", "run_get", "run_emp"}

\* C1: of the concurrent sweeps that evaluate the same due period exactly one
\* acquires the lock and calls process_payroll_period; two sweeps never have a
\* processing of the same period in flight at the same time.
C1_OneSweepPerPeriod ==
    \A p \in PeriodIds :
        \A w1, w2 \in Workers :
            (SweepInFlight(w1, p) /\ SweepInFlight(w2, p)) => w1 = w2

\* C2: whatever the interleaving of sweeps, manual triggers and direct
\* processor runs, the status of a period is written active -> completed at
\* most once and no employee gets more than one payment record for a period.
C2_StatusWrittenOnce ==
    \A p \in PeriodIds :
        /\ statusWrites[p] <= 1
        /\ \A e \in Employees : payments[p][e] <= 1

\* The process_payroll_period call of worker w has ended and its result is in res.
CallEnded(w) ==
    \/ op[w] = "sweep" /\ pc[w] = "after"
    \/ op[w] = "manual" /\ pc[w] = "idle"

\* C3: a process_payroll_period call that finds the period completed returns
\* 'already_completed', does not invoke the processor and writes nothing: no
\* status transition, no salary or payment record.
C3_CompletedIsNoOp ==
    \A w \in Workers :
        hist[w].pppSaw = "completed" =>
            /\ ~hist[w].ranProcessor
            /\ pc[w] \notin {"run_get", "run_emp"}
            /\ CallEnded(w) =>
                   /\ res[w].kind = "return"
                   /\ res[w].status = "already_completed"
                   /\ cur[w] \notin hist[w].wrote

\* Two calls in sequence on period 2: the first has completed it before the
\* second started, and the second has returned 'already_completed'; the period
\* has one status write and at most one payment per employee.
C3_Witness ==
    \E w, v \in Workers :
        /\ w # v
        /\ op[v] = "manual" /\ pc[v] = "idle" /\ hist[v].wrote = {2}
        /\ op[w] = "manual" /\ pc[w] = "idle" /\ cur[w] = 2
        /\ hist[w].snap[2].status = "completed"
        /\ hist[w].pppSaw = "completed"
        /\ res[w].status = "already_completed"
        /\ statusWrites[2] = 1
        /\ \A e \in Employees : payments[2][e] <= 1

\* C4: a lock entry that a sweep set exists only while that sweep is between
\* its cache.set and its cache.delete for that period; when the sweep moves to
\* the next period or returns, it has deleted the entry of every lock it
\* acquired, whether process_payroll_period returned or raised.
C4_LocksReleased ==
    /\ \A p \in PeriodIds : \A w \in Workers :
           lock[p] = w =>
               /\ op[w] = "sweep" /\ cur[w] = p
               /\ pc[w] \in {"ppp", "run_get", "run_emp", "after"}
    /\ \A w \in Workers :
           (op[w] = "sweep" /\ pc[w] \in {"loop", "idle"}) =>
               /\ hist[w].acquired \subseteq hist[w].released
               /\ \A p \in hist[w].acquired : lock[p] # w

\* A returned sweep that acquired two locks, one for a period whose processing
\* raised and one for a period whose processing returned; both are free.
C4_Witness ==
    \E w \in Workers :
        /\ op[w] = "sweep" /\ pc[w] = "idle"
        /\ hist[w].acquired = {1, 2}
        /\ Ids(failed[w]) \cap hist[w].acquired # {}
        /\ Ids(processed[w]) \cap hist[w].acquired # {}
        /\ \A p \in PeriodIds : lock[p] = NoOwner

\* C5: an exception raised while a sweep evaluates or processes a period is
\* recorded for that period in failed_periods with its message; the processing
\* of the other periods goes on (every fetched period that is due ends up in one
\* of the lists, every processing that returned in processed_periods) and the
\* sweep returns its report, it does not raise.
C5_SweepIsolation ==
    \A w \in Workers :
        op[w] = "sweep" =>
            /\ \A x \in hist[w].raised :
                   (pc[w] # "after" \/ x[1] # cur[w]) =>
                       \E i \in 1 .. Len(failed[w]) :
                           failed[w][i] = [period_id |-> x[1], prefix |-> x[2], error |-> x[3]]
            /\ \A p \in hist[w].returned :
                   (pc[w] # "after" \/ p # cur[w]) => p \in Ids(processed[w])
            /\ pc[w] = "idle" =>
                   /\ res[w].kind = "report"
                   /\ \A p \in Eligible(hist[w].snap) :
                          \/ is_due_for_automation(hist[w].snap[p], today) = "False"
                          \/ p \in Ids(processed[w]) \cup Ids(skipped[w]) \cup Ids(failed[w])

\* A returned sweep in which the processing of the first period raised and the
\* second period was processed and completed all the same.
C5_Witness ==
    \E w \in Workers :
        /\ op[w] = "sweep" /\ pc[w] = "idle" /\ res[w].kind = "report"
        /\ Len(failed[w]) = 1 /\ failed[w][1].period_id = 2
        /\ failed[w][1].error = "cannot process"
        /\ Len(processed[w]) = 1 /\ processed[w][1].period_id = 1
        /\ processed[w][1].result.status = "completed"

\* The periods a sweep has touched: it looked their lock up and went on, set
\* or deleted their lock entry, called process_payroll_period for them, wrote
\* their status, or listed them as processed or skipped.
Touched(w) ==
    hist[w].invoked \cup hist[w].acquired \cup hist[w].released \cup hist[w].wrote
    \cup Ids(processed[w]) \cup Ids(skipped[w])
    \cup (IF pc[w] \in {"set", "ppp", "run_get", "run_emp", "after"} THEN {cur[w]} ELSE {})

\* C6: a sweep touches only periods that its fetch found automation_enabled
\* and active and that is_due_for_automation() says are due today; a period
\* that is disabled, not active or not due is in none of its lists, and the
\* sweep leaves its lock entry and its status alone.
C6_OnlyDuePeriods ==
    \A w \in Workers :
        op[w] = "sweep" =>
            \A p \in PeriodIds :
                LET row == hist[w].snap[p]
                    out == is_due_for_automation(row, today)
                IN  /\ p \in Touched(w) =>
                           row.automation_enabled /\ row.status = "active" /\ out = "True"
                    /\ p \in Ids(failed[w]) =>
                           row.automation_enabled /\ row.status = "active" /\ out # "False"

\* A returned sweep that processed period 1 and left period 2, enabled and
\* active but not due today, alone.
C6_Witness ==
    \E w \in Workers :
        /\ op[w] = "sweep" /\ pc[w] = "idle"
        /\ Ids(processed[w]) = {1}
        /\ periods[2].automation_rule = RuleDays5 /\ periods[2].automation_enabled
        /\ periods[2].status = "active" /\ lock[2] = NoOwner
        /\ 2 \notin Touched(w) \cup Ids(failed[w])

\* C7: a due period whose lock entry a sweep finds present is recorded as
\* skipped with reason 'Already processing'; the sweep does not call
\* process_payroll_period for it nor set its lock, and lists it neither as
\* processed nor as failed.
C7_LockedIsSkipped ==
    \A w \in Workers :
        op[w] = "sweep" =>
            \A p \in hist[w].sawLocked :
                /\ \E i \in 1 .. Len(skipped[w]) :
                       skipped[w][i] = [period_id |-> p, reason |-> "Already processing"]
                /\ p \notin hist[w].invoked \cup hist[w].acquired
                /\ p \notin Ids(processed[w]) \cup Ids(failed[w])
                /\ ~(cur[w] = p /\ pc[w] \in {"set", "ppp", "run_get", "run_emp", "after"})

\* A returned sweep that skipped a period another sweep was processing.
C7_Witness ==
    \E w, v \in Workers :
        /\ w # v
        /\ op[w] = "sweep" /\ pc[w] = "idle" /\ hist[w].sawLocked # {}
        /\ Len(skipped[w]) > 0
        /\ op[v] = "sweep" /\ SweepInFlight(v, skipped[w][1].period_id)

\* The calendar date of an ordinal within a month of DueEnd, 2024-02-29.
CivilDate(ord) ==
    IF ord <= DueEnd THEN <<2024, 2, 29 - (DueEnd - ord)>>
    ELSE <<2024, 3, ord - DueEnd>>

\* The automation_rule holds no key at all.
NoKeys(rule) ==
    /\ rule.run_on_date.t = "absent" /\ rule.days_before_end.t = "absent"
    /\ ~rule.cron /\ ~rule.other

\* C8: is_due_for_automation() is false on every date when automation_enabled
\* is false, or the status is not 'active', or automation_rule is absent or
\* empty, whatever the rule holds.
C8_ClosedGateNotDue ==
    LET per == periods[1] IN
        (/\ dueResult # "none"
         /\ \/ ~per.automation_enabled
            \/ per.status # "active"
            \/ per.automation_rule.nil
            \/ NoKeys(per.automation_rule))
        => dueResult = "False"

\* An enabled, completed period whose rule holds a cron key and a run_on_date
\* that is today: not due.
C8_Witness ==
    /\ dueResult = "False"
    /\ today = DueEnd
    /\ periods[1].automation_enabled /\ periods[1].status = "completed"
    /\ periods[1].automation_rule.cron
    /\ periods[1].automation_rule.run_on_date = DateStr(2024, 2, 29)

\* The rule of period 1 holds the one key k (of run_on_date, days_before_end).
OnlyKey(k) ==
    LET rule == periods[1].automation_rule IN
        /\ ~rule.nil /\ ~rule.cron /\ ~rule.other
        /\ (k = "run_on_date") = (rule.run_on_date.t # "absent")
        /\ (k = "days_before_end") = (rule.days_before_end.t # "absent")

\* C9: for an enabled, active period whose rule holds only days_before_end = N,
\* N any integer, is_due_for_automation() is true on the date end_date - N and
\* false on every other date.
C9_DaysBeforeEndExact ==
    LET per == periods[1] IN
        (/\ dueResult # "none"
         /\ per.automation_enabled /\ per.status = "active"
         /\ OnlyKey("days_before_end")
         /\ per.automation_rule.days_before_end.t = "int")
        => dueResult = BoolStr(today = per.end_date - per.automation_rule.days_before_end.v)

\* R is the text of a calendar date of February or March 2024.
IsCalendarDate(R) ==
    /\ R.t = "str" /\ R.y = 2024
    /\ \/ R.m = 2 /\ R.d \in 1 .. 29
       \/ R.m = 3 /\ R.d \in 1 .. 31

\* C10: for an enabled, active period whose rule holds only run_on_date = R, R
\* a well-formed YYYY-MM-DD date, is_due_for_automation() is true iff today is R.
C10_RunOnDateExact ==
    LET per == periods[1]
        R == per.automation_rule.run_on_date
    IN  (/\ dueResult # "none"
         /\ per.automation_enabled /\ per.status = "active"
         /\ OnlyKey("run_on_date")
         /\ IsCalendarDate(R))
        => dueResult = BoolStr(CivilDate(today) = <<R.y, R.m, R.d>>)

\* run_on_date '2024-03-01' evaluated on the day after 2024-02-29: due.
C10_Witness ==
    /\ dueResult = "True"
    /\ today = DueEnd + 1
    /\ periods[1].automation_enabled /\ periods[1].status = "active"
    /\ OnlyKey("run_on_date")
    /\ periods[1].automation_rule.run_on_date = DateStr(2024, 3, 1)

\* C11: for an enabled, active period whose rule holds only a cron key,
\* is_due_for_automation() is true on every date, whatever the expression: the
\* expression is never read.
C11_CronAlwaysDue ==
    LET per == periods[1]
        rule == per.automation_rule
    IN  (/\ dueResult # "none"
         /\ per.automation_enabled /\ per.status = "active"
         /\ ~rule.nil /\ rule.cron /\ ~rule.other
         /\ rule.run_on_date.t = "absent" /\ rule.days_before_end.t = "absent")
        => dueResult = "True"

\* A cron-only rule evaluated on the last day of the window: due.
C11_Witness ==
    /\ dueResult = "True"
    /\ today = DueEnd + DueWindow
    /\ periods[1].automation_enabled /\ periods[1].status = "active"
    /\ periods[1].automation_rule = RuleCron

\* C12: is_due_for_automation() never raises, whatever the rule holds: a
\* run_on_date that is no parseable date (of the wrong shape, or no string) and
\* a days_before_end that cannot be cast to an integer are passed over, and the
\* result is false when no other key of the rule applies.
C12_DueCheckTotal ==
    LET per == periods[1]
        rule == per.automation_rule
        badDate == rule.run_on_date.t \in {"text", "int", "null"}
                   \/ (rule.run_on_date.t = "str" /\ ~IsCalendarDate(rule.run_on_date))
        badDays == rule.days_before_end.t \in {"text", "str", "null"}
    IN  /\ dueResult \in {"none", "True", "False"}
        /\ (/\ dueResult # "none"
            /\ per.automation_enabled /\ per.status = "active" /\ ~rule.nil
            /\ (badDate \/ rule.run_on_date.t = "absent")
            /\ (badDays \/ rule.days_before_end.t = "absent")
            /\ ~rule.cron)
           => dueResult = "False"

\* Worker w is inside a process_payroll_period / run_payroll call.
InCall(w) == pc[w] \in {"ppp", "run_get", "run_emp"}

\* C13: process_payroll_period does not retry a business-logic failure: when
\* the period does not exist, when its status is neither active nor completed,
\* or when the processor raises PayrollProcessorError, the call ends after its
\* first attempt and PayrollProcessorError reaches the caller.
C13_BusinessFailureNotRetried ==
    \A w \in Workers :
        op[w] \in {"sweep", "manual"} =>
            LET h == hist[w]
                business == \/ h.pppSaw \in {"missing", "cancelled"}
                            \/ h.runSaw \in {"missing", "completed", "cancelled"}
            IN  business =>
                    /\ ~InCall(w)
                    /\ h.attempts = 1
                    /\ CallEnded(w) =>
                           res[w].kind = "raise" /\ res[w].exc = "PayrollProcessorError"

\* A manual run whose period was cancelled between the status check of
\* process_payroll_period and that of the processor: the processor raised, and
\* the call ended after one attempt.
C13_Witness ==
    \E w \in Workers :
        /\ op[w] = "manual" /\ pc[w] = "idle"
        /\ hist[w].pppSaw = "active" /\ hist[w].runSaw = "cancelled"
        /\ hist[w].attempts = 1
        /\ res[w].exc = "PayrollProcessorError"

\* C14: an unexpected exception during a single-period run, one raised inside
\* the processor included, is retried at most MaxRetries times: a call makes
\* at most MaxRetries + 1 attempts, and a call that ends with an attempt that
\* met an unexpected exception has made them all.
C14_UnexpectedIsRetried ==
    \A w \in Workers :
        op[w] \in {"sweep", "manual"} =>
            /\ hist[w].attempts <= MaxRetries + 1
            /\ (hist[w].lastFault /\ ~InCall(w)) => hist[w].attempts = MaxRetries + 1

\* C15: a run_payroll that finds the period cancelled, completed or missing,
\* and a process_payroll_period that finds it cancelled, end at once with
\* PayrollProcessorError; the call has not gone on to the employees and has
\* written nothing: no status, no salary record, no payment record.
C15_TerminalStateRejected ==
    \A w \in Workers :
        LET h == hist[w]
            rejected == \/ h.runSaw \in {"cancelled", "completed", "missing"}
                        \/ (op[w] \in {"sweep", "manual"} /\ h.pppSaw = "cancelled")
        IN  rejected =>
                /\ ~InCall(w)
                /\ cur[w] \notin h.wrote
                /\ run[w] = NewProcessor
                /\ (op[w] \in {"sweep", "manual"} /\ h.pppSaw = "cancelled") => ~h.ranProcessor
                /\ (op[w] # "sweep" \/ pc[w] = "after") =>
                       res[w].kind = "raise" /\ res[w].exc = "PayrollProcessorError"

\* The processor called directly for a cancelled period: it raised, the period
\* is still cancelled and has neither a payment nor a salary record.
C15_Witness ==
    \E w \in Workers :
        /\ op[w] = "direct" /\ pc[w] = "idle" /\ cur[w] = 2
        /\ hist[w].runSaw = "cancelled"
        /\ res[w].exc = "PayrollProcessorError"
        /\ periods[2].status = "cancelled" /\ statusWrites[2] = 0
        /\ \A e \in Employees : payments[2][e] = 0 /\ salaries[2][e] = 0

C16_CrashedLockExpires ==
    \A p \in PeriodIds : \A w \in Workers :
        (pc[w] = "crashed" /\ lock[p] = w) ~> (lock[p] = NoOwner)

\* A sweep died holding the lock of period 1; the entry expired, and a later
\* sweep of the other worker set the lock, processed the period and completed
\* it.
C16_Witness ==
    \E w, v \in Workers :
        /\ pc[w] = "crashed" /\ cur[w] = 1 /\ 1 \in hist[w].expired
        /\ op[v] = "sweep" /\ pc[v] = "idle"
        /\ 1 \in hist[v].afterExpiry
        /\ \E i \in 1 .. Len(processed[v]) :
               processed[v][i].period_id = 1 /\ processed[v][i].result.status = "completed"
        /\ periods[1].status = "completed" /\ lock[1] = NoOwner

\* The periods a and b have a day in common.
DaysShared(a, b) ==
    \E d \in StoreDays :
        /\ a.start_date <= d /\ d <= a.end_date
        /\ b.start_date <= d /\ d <= b.end_date

C19_NetSalaryNotClamped ==
    calc.fn = "_process_employee_payroll" =>
        /\ calc.net_salary + calc.total_deductions + calc.total_taxes + calc.total_insurance
               = calc.gross_salary
        /\ (calc.total_deductions + calc.total_taxes + calc.total_insurance > calc.gross_salary)
               => calc.net_salary < 0
        /\ calc.amount = calc.net_salary

\* Gross 5000, deductions 3000, taxes 2000, insurance 1000: the salary record
\* and the payment hold -1000.
C19_Witness ==
    /\ calc.fn = "_process_employee_payroll"
    /\ calc.gross_salary = 5000 /\ calc.total_deductions = 3000
    /\ calc.total_taxes = 2000 /\ calc.total_insurance = 1000
    /\ calc.net_salary = -1000 /\ calc.amount = -1000

\* C20: for a period with both dates set duration_days is (end_date -
\* start_date) + 1, the number of days from start_date to end_date with both
\* counted: 1 when the dates are equal, 29 for 2024-02-01..2024-02-29, and at
\* least 1 whenever end_date >= start_date.
C20_DurationInclusive ==
    (calc.fn = "duration_days" /\ calc.start_date # NoDate /\ calc.end_date # NoDate) =>
        /\ calc.value - 1 = calc.end_date - calc.start_date
        /\ calc.end_date >= calc.start_date =>
               /\ calc.value = Cardinality({d \in DurationDays :
                                               calc.start_date <= d /\ d <= calc.end_date})
               /\ calc.value >= 1
        /\ calc.start_date = calc.end_date => calc.value = 1
        /\ (/\ calc.start_date = Ymd2Ord(2024, 2, 1)
            /\ calc.end_date = Ymd2Ord(2024, 2, 29)) => calc.value = 29

\* duration_days was read on the period 2024-02-01..2024-02-29 and gave 29.
C20_Witness ==
    /\ calc.fn = "duration_days"
    /\ calc.start_date = Ymd2Ord(2024, 2, 1)
    /\ calc.end_date = Ymd2Ord(2024, 2, 29)
    /\ calc.value = 29

\* C21: once the status of a period is cancelled or completed no step of the
\* automation changes it: a period an administrator cancels while a
\* run_payroll for it is between its status check and its status write does
\* not become completed.
C21_TerminalStatusKept ==
    [][\A p \in PeriodIds :
          periods[p].status \in {"cancelled", "completed"}
              => periods'[p].status = periods[p].status]_vars

\* The employees the error list of result r names.
ErrorEmployees(r) == {r.errors[i] : i \in 1 .. Len(r.errors)}

\* C22: every employee counted in processed_employees of a returned summary
\* has a salary record and a payment record stored for the period; an
\* employee of whom a record could not be persisted is in the summary's error
\* list and is not counted.
C22_ProcessedHaveRecords ==
    \A w \in Workers :
        (op[w] \in {"direct", "http"} /\ res[w].kind = "return" /\ res[w].status = "completed")
            => /\ res[w].count <= Cardinality({e \in Employees :
                                     /\ payments[cur[w]][e] >= 1
                                     /\ salaries[cur[w]][e] >= 1})
               /\ hist[w].unsaved \subseteq ErrorEmployees(res[w])

\* The run_payroll call of worker w has returned its summary.
RunReturned(w) ==
    /\ op[w] \in {"direct", "http"} /\ pc[w] = "idle"
    /\ res[w].kind = "return" /\ res[w].status = "completed"

\* C23: a run_payroll writes the period's status once, to completed, and not
\* before _process_employee_payroll has been called for every active
\* employee; it writes it whether or not employees failed, so when the run
\* has returned a summary the period is completed.
C23_OneStatusWriteAtEnd ==
    \A w \in Workers :
        op[w] \in {"direct", "http"} =>
            /\ pc[w] \in {"run_get", "run_emp"} => hist[w].wrote = {}
            /\ RunReturned(w) =>
                  /\ hist[w].wrote = {cur[w]}
                  /\ hist[w].attempted = Employees
                  /\ periods[cur[w]].status = "completed"
                  /\ statusWrites[cur[w]] >= 1
            /\ (opsStarted = 1 /\ cur[w] \in PeriodIds) =>
                  statusWrites[cur[w]] = IF RunReturned(w) THEN 1 ELSE 0

\* A run in which every employee failed has returned its summary: the period
\* is completed by the run's one status write.
C23_Witness ==
    /\ RunReturned(FirstWorker)
    /\ opsStarted = 1
    /\ res[FirstWorker].count = 0
    /\ Len(res[FirstWorker].errors) = NumEmployees
    /\ periods[2].status = "completed"
    /\ statusWrites[2] = 1

C25_AllOrNothing ==
    /\ \A w \in Workers :
          (/\ opsStarted = 1 /\ op[w] = "direct" /\ pc[w] = "idle"
           /\ res[w].kind = "raise")
          => /\ res[w].exc = "PayrollProcessorError"
             /\ \A p \in PeriodIds :
                   /\ statusWrites[p] = 0
                   /\ periods[p].status # "completed"
                   /\ \A e \in Employees : payments[p][e] = 0 /\ salaries[p][e] = 0
    /\ \A p \in PeriodIds :
          statusWrites[p] = 0 =>
              \A e \in Employees : payments[p][e] = 0 /\ salaries[p][e] = 0

\* The run of period 2 processed every employee, then its status write
\* failed: the run raised, period 2 is still active and holds no record.
C25_Witness ==
    /\ opsStarted = 1 /\ op[FirstWorker] = "direct" /\ pc[FirstWorker] = "idle"
    /\ res[FirstWorker].exc = "PayrollProcessorError"
    /\ res[FirstWorker].msg = "Payroll processing failed: save failed"
    /\ hist[FirstWorker].attempted = Employees
    /\ hist[FirstWorker].failedEmp = {} /\ hist[FirstWorker].unsaved = {}
    /\ periods[2].status = "active"
    /\ \A e \in Employees : payments[2][e] = 0 /\ salaries[2][e] = 0

\* C26: the keys of a rule are taken in the order run_on_date,
\* days_before_end, cron and the first that matches decides: for an enabled,
\* active period the due-check, when it gives an answer, is true iff a
\* well-formed run_on_date is today, or an integer days_before_end counts back
\* from end_date to today, or the rule holds a cron key.
C26_FirstMatchWins ==
    LET per == periods[1]
        rule == per.automation_rule
        R == rule.run_on_date
        runMatches == IsCalendarDate(R) /\ CivilDate(today) = <<R.y, R.m, R.d>>
        daysMatch == /\ rule.days_before_end.t = "int"
                     /\ today = per.end_date - rule.days_before_end.v
    IN  (/\ dueResult \in {"True", "False"}
         /\ per.automation_enabled /\ per.status = "active"
         /\ ~rule.nil)
        => dueResult = BoolStr(runMatches \/ daysMatch \/ rule.cron)

\* C27: run_payroll_for_period without force does not process a period that
\* is not due for automation on the day of the call: it returns status
\* 'skipped' with the message 'Period is not due for automation',
\* process_payroll_period is not called and the call writes nothing.
C27_NotDueIsSkipped ==
    \A w \in Workers :
        (/\ op[w] = "manual" /\ ~hist[w].force
         /\ cur[w] \in PeriodIds
         /\ is_due_for_automation(hist[w].snap[cur[w]], today) = "False")
        => /\ pc[w] = "idle"
           /\ res[w].kind = "return" /\ res[w].status = "skipped"
           /\ res[w].msg = "Period is not due for automation"
           /\ cur[w] \notin hist[w].invoked
           /\ cur[w] \notin hist[w].wrote

\* C28: every write the automation makes to a period changes its status from
\* active to completed and nothing else: a step that commits a status write
\* finds the period active and leaves it completed with its dates, type,
\* automation_enabled and automation_rule as they were, and no step of the
\* automation adds a period, removes one or changes one in another way.
C28_OnlyCompletesActive ==
    [][/\ DOMAIN periods' = DOMAIN periods
       /\ \A p \in PeriodIds :
             IF statusWrites'[p] # statusWrites[p]
             THEN /\ periods[p].status = "active"
                  /\ periods'[p] = [periods[p] EXCEPT !.status = "completed"]
             ELSE \/ periods'[p] = periods[p]
                  \/ /\ periods[p].status = "active"
                     /\ periods'[p] = [periods[p] EXCEPT !.status = "cancelled"]]_vars

\* C29: the cache.delete in a sweep's finally block removes only the lock
\* entry this sweep set and still holds: when the entry of its period is by
\* then the entry of another sweep (its own has expired and the other sweep
\* has set the lock since), the release leaves that entry in place.
C29_ReleaseOnlyOwnLock ==
    [][\A w \in Workers :
          (/\ op[w] = "sweep" /\ pc[w] = "after" /\ pc'[w] # "after"
           /\ pc'[w] # "crashed"
           /\ lock[cur[w]] # w)
          => lock'[cur[w]] = lock[cur[w]]]_vars

\* The number of entries of list for period p.
Entries(list, p) == Cardinality({i \in 1 .. Len(list) : list[i].period_id = p})

\* C30: in the report of a sweep a period has at most one entry in the
\* processed, skipped and failed lists together, a period whose lock the
\* sweep set and whose processing has ended has exactly one entry in
\* processed or failed, and the three counts of the report are the lengths of
\* the lists, also when the cache.delete after a run fails.
C30_ReportConsistent ==
    \A w \in Workers :
        op[w] = "sweep" =>
            /\ \A p \in PeriodIds :
                  Entries(processed[w], p) + Entries(skipped[w], p) + Entries(failed[w], p) <= 1
            /\ \A p \in hist[w].acquired :
                  (p # cur[w]) =>
                      Entries(processed[w], p) + Entries(failed[w], p) = 1
            /\ (pc[w] = "idle" /\ res[w].kind = "report") =>
                  /\ res[w].count = Len(processed[w])
                  /\ res[w].errors = <<Len(skipped[w]), Len(failed[w])>>

====
